---- MODULE Spec2Model ----
(***************************************************************************)
(* Interion: the version graph and the generation cycles of the two App    *)
(* components of the repository.                                           *)
(*                                                                         *)
(*   Spec        the design studio of the App of src/unnamed/part_002      *)
(*   SpecCinema  its image and video generation cycles side by side        *)
(*   SpecV1      the App of src/App.tsx (design studio with undo)          *)
(*   SpecUrl     getBase64FromUrl of src/services/geminiService.ts         *)
(*   SpecService one call of generateDesignIteration or generateDesignVideo*)
(*               of that file, from its arguments to what it returns or    *)
(*               throws, over the replies of the provider                  *)
(*                                                                         *)
(* React state is the VARIABLES.  A synchronous handler is one action.  An *)
(* async handler is one action per stretch between two awaits; what its    *)
(* closure captured at the click (currentVersion, designState, versions,   *)
(* videoState) travels in the request record, because the code after the   *)
(* await reads those captured values and not the state of the moment.      *)
(*                                                                         *)
(* JavaScript arrays have identity: arrs is the heap of the arrays a       *)
(* DesignState points at (customItems, selectedPresets), and a DesignState *)
(* is the record of its scalar fields and of those two addresses.          *)
(* { ...x } copies the record, so the copy still points at the same        *)
(* arrays; [...a, e] and a.filter(...) allocate a new array.               *)
(*                                                                         *)
(* The scalar fields of a DesignState (roomType, style, mood, budget,      *)
(* instructions, lockedElements, inspirationImage) are all written by the  *)
(* same form, setDesignState({ ...designState, field: value }); the model  *)
(* keeps instructions, the one the handlers also read.  Of a version it    *)
(* keeps id, parentId, timestamp, imageUrl, config and promptUsed; the     *)
(* metadata of the reply (vibeSummary, reasoning, suggestions,             *)
(* sustainabilityScore) is stored with the node and read by no handler.    *)
(***************************************************************************)
EXTENDS Integers, Sequences, FiniteSets, TLC

\* ------------------------------------------------------------------ bounds
\* ids ever drawn for versions (crypto.randomUUID, modelled as a counter)
MaxVersions == 3
\* ids ever drawn for videos
MaxVideos == 1
\* ids ever drawn for custom items
MaxItems == 1
\* arrays ever allocated (the two arrays of INITIAL_STATE included)
MaxArrs == 3
\* image-generation requests in flight at once
MaxImgReqs == 2
\* video-generation cycles in flight at once
MaxVidReqs == 1

\* tokens of an image reference handed to getBase64FromUrl
MaxUrlLen == 4
\* successive applications of getBase64FromUrl that are followed
MaxApplications == 2

\* custom items of a DesignState handed to generateDesignIteration
MaxServiceItems == 2
\* image parts in one reply of the model
MaxReplyImages == 2
\* not-done reports one call of generateDesignVideo is followed through
MaxPolls == 2

\* ------------------------------------------------------------------ values
null == 0
VersionIds == 1..MaxVersions
VideoIds == 1..MaxVideos

InstructionTexts == {"", "Add a desk"}
PresetIds == {"kid-friendly"}
Photos == {"photo"}
Resolutions == {"720p", "1080p"}

\* the constant objects of the module scope
INITIAL_STATE_customItems == 1
INITIAL_STATE_selectedPresets == 2
INITIAL_STATE ==
  [instructions |-> "",
   customItems |-> INITIAL_STATE_customItems,
   selectedPresets |-> INITIAL_STATE_selectedPresets]
INITIAL_VIDEO_STATE ==
  [resolution |-> "720p", aspectRatio |-> "16:9",
   style |-> "Cinematic Architectural Showcase", motionIntensity |-> 5,
   prompt |-> "A smooth cinematic tracking shot"]

VARIABLES
  versions,          \* DesignVersion[]
  videoVersions,     \* VideoVersion[]
  currentVersionId,  \* string | null
  currentVideoId,    \* string | null
  designState,       \* the live DesignState
  videoState,        \* the live VideoState
  isGenerating,      \* the busy flag
  toast,             \* the message of the latest addToast ("" before the first)
  error,             \* src/App.tsx only: the error banner, string | null
  arrs,              \* heap of arrays
  imgReqs,           \* handleGenerate calls awaiting generateDesignIteration
  vidReqs,           \* handleGenerateVideo calls at one of their awaits
  nextVersionId, nextVideoId, nextItemId,   \* crypto.randomUUID
  apiKey,            \* process.env.API_KEY ("" when it is not set)
  call               \* a call of a function of geminiService.ts, step by step

graph == <<versions, currentVersionId>>
videos == <<videoVersions, currentVideoId>>
ids == <<nextVersionId, nextVideoId, nextItemId>>
service == <<apiKey, call>>
app == <<versions, videoVersions, currentVersionId, currentVideoId,
         designState, videoState, isGenerating, toast, error, arrs, imgReqs,
         vidReqs, nextVersionId, nextVideoId, nextItemId>>
vars == <<versions, videoVersions, currentVersionId, currentVideoId,
          designState, videoState, isGenerating, toast, error, arrs,
          imgReqs, vidReqs, nextVersionId, nextVideoId, nextItemId,
          apiKey, call>>

\* no call of the service is being followed
NoCall == [fn |-> "none", pc |-> "idle"]

\* ----------------------------------------------------------------- helpers
Range(s) == {s[i] : i \in DOMAIN s}
RemoveAt(s, i) == SubSeq(s, 1, i - 1) \o SubSeq(s, i + 1, Len(s))
Last(s) == s[Len(s)]
Max(S) == CHOOSE x \in S : \A y \in S : y <= x

\* s.findIndex(v => v.id === id): the first match; 0 when there is none
FindIndex(s, id) ==
  IF \E i \in DOMAIN s : s[i].id = id
    THEN CHOOSE i \in DOMAIN s : s[i].id = id /\ \A j \in 1..(i - 1) : s[j].id # id
    ELSE 0
\* s.find(v => v.id === id)
Has(s, id) == FindIndex(s, id) # 0
Find(s, id) == s[FindIndex(s, id)]

\* const currentVersion = versions.find(v => v.id === currentVersionId)
HasCurrentVersion == Has(versions, currentVersionId)
currentVersion == Find(versions, currentVersionId)

\* Date.now(): not before any timestamp already taken; two calls may read the
\* same millisecond.  Only the order of the timestamps of the versions is
\* kept (nothing reads the timestamp of a video, which the model leaves out).
Clock ==
  LET taken == {v.timestamp : v \in Range(versions)}
  IN IF taken = {} THEN {1} ELSE {Max(taken), Max(taken) + 1}

\* a DesignState with its arrays read through a given heap
ConfigIn(heap, config) ==
  [instructions |-> config.instructions,
   customItems |-> heap[config.customItems],
   selectedPresets |-> heap[config.selectedPresets]]

\* ------------------------------------------------------------ initial state
Init ==
  /\ versions = <<>>
  /\ videoVersions = <<>>
  /\ currentVersionId = null
  /\ currentVideoId = null
  /\ designState = INITIAL_STATE
  /\ videoState = INITIAL_VIDEO_STATE
  /\ isGenerating = FALSE
  /\ toast = ""
  /\ error = null
  /\ arrs = << <<>>, <<>> >>
  /\ imgReqs = <<>>
  /\ vidReqs = <<>>
  /\ nextVersionId = 1
  /\ nextVideoId = 1
  /\ nextItemId = 1
  /\ apiKey = "key"
  /\ call = NoCall

\* ------------------------------------------------------------- the panels
\* mode ('landing' | 'design' | 'video') only decides which panel is rendered.
\* The landing page shows the file input while no version is current and the
\* two studio buttons (and Start Over) while one is; Home leads back from a
\* studio; every handler that sets mode to 'landing' leaves no version
\* current or resets.  So the user can reach the controls of either studio
\* exactly when a version is current, and the file input exactly when none
\* is: the guards below say that, and mode is not a variable of the model.
StudioOpen == HasCurrentVersion
LandingUpload == ~HasCurrentVersion

\* ------------------------------------------------------------ handleReset
\* Start Over on the landing page, New Project in the studio header; a
\* cancelled confirm() returns without a change
handleReset ==
  /\ StudioOpen
  /\ versions' = <<>>
  /\ videoVersions' = <<>>
  /\ currentVersionId' = null
  /\ currentVideoId' = null
  /\ designState' = INITIAL_STATE
  /\ videoState' = INITIAL_VIDEO_STATE
  /\ toast' = "Started new project."
  /\ UNCHANGED <<service, error, isGenerating, arrs, imgReqs, vidReqs, ids>>

\* ------------------------------------------------------- handleFileUpload
\* the file input exists on the landing page while no version is current;
\* reader.onloadend builds the root node.  (The read is taken to end before
\* the next event; a file over 5MB only raises a toast.)
handleFileUpload(photo) ==
  /\ LandingUpload
  /\ nextVersionId <= MaxVersions
  /\ \E t \in Clock :
       LET newVersion ==
             [id |-> nextVersionId, parentId |-> null, timestamp |-> t,
              imageUrl |-> photo,
              config |-> INITIAL_STATE,                \* { ...INITIAL_STATE }
              promptUsed |-> [text |-> "Original Photo", n |-> 0]]
       IN /\ versions' = <<newVersion>>
          /\ currentVersionId' = newVersion.id
  /\ designState' = INITIAL_STATE                      \* { ...INITIAL_STATE }
  /\ nextVersionId' = nextVersionId + 1
  /\ toast' = "Room uploaded! Choose your path."
  /\ UNCHANGED <<service, error, videos, videoState, isGenerating, arrs, imgReqs,
                 vidReqs, nextVideoId, nextItemId>>

\* ---------------------------------------------------- handleSelectVersion
\* setDesignState({ ...v.config })
SelectedConfig(v) == v.config

handleSelectVersion(id) ==
  /\ StudioOpen
  /\ IF Has(versions, id)
       THEN /\ currentVersionId' = id
            /\ designState' = SelectedConfig(Find(versions, id))
            /\ toast' = "Switched to version"
       ELSE UNCHANGED <<currentVersionId, designState, toast>>
  /\ UNCHANGED <<service, error, versions, videos, videoState, isGenerating, arrs,
                 imgReqs, vidReqs, ids>>

\* ---------------------------------------------------- handleDeleteVersion
\* (C5) a deletion that also drops the versions generated from the deleted one
WithoutVersion_cascade(id) ==
  LET Keep(v) == v.id # id /\ v.parentId # id IN SelectSeq(versions, Keep)

\* versions.filter(v => v.id !== id)
WithoutVersion(id) == LET Keep(v) == v.id # id IN SelectSeq(versions, Keep)

\* (C4) the oldest remaining version as the fallback
FallbackVersion_first(newVersions) == newVersions[1]

\* (C29) no fallback: the pointer stays on the deleted version
FallbackVersion_stay(newVersions) == currentVersion

\* const nextVersion = newVersions[newVersions.length - 1]
FallbackVersion(newVersions) == Last(newVersions)

handleDeleteVersion(id) ==
  /\ StudioOpen
  /\ LET newVersions == WithoutVersion(id) IN
       /\ versions' = newVersions
       /\ IF id = currentVersionId
            THEN IF Len(newVersions) > 0
                   THEN LET nextVersion == FallbackVersion(newVersions) IN
                          /\ currentVersionId' = nextVersion.id
                          /\ designState' = nextVersion.config
                   ELSE /\ currentVersionId' = null
                        /\ designState' = designState
            ELSE UNCHANGED <<currentVersionId, designState>>
  /\ toast' = "Design removed."
  /\ UNCHANGED <<service, error, videos, videoState, isGenerating, arrs, imgReqs, vidReqs, ids>>

\* ------------------------------------------------------ handleDeleteVideo
handleDeleteVideo(id) ==
  /\ StudioOpen
  /\ LET Keep(v) == v.id # id
         newVideos == SelectSeq(videoVersions, Keep) IN
       /\ videoVersions' = newVideos
       /\ currentVideoId' =
            IF id = currentVideoId
              THEN IF Len(newVideos) > 0 THEN Last(newVideos).id ELSE null
              ELSE currentVideoId
  /\ toast' = "Video removed."
  /\ UNCHANGED <<service, error, graph, designState, videoState, isGenerating, arrs,
                 imgReqs, vidReqs, ids>>

\* onClick={() => setCurrentVideoId(v.id)} of a video history item
selectVideo(id) ==
  /\ StudioOpen
  /\ Has(videoVersions, id)
  /\ currentVideoId' = id
  /\ toast' = toast
  /\ UNCHANGED <<service, error, graph, videoVersions, designState, videoState,
                 isGenerating, arrs, imgReqs, vidReqs, ids>>

\* ------------------------------------------------------ DesignState edits
\* setDesignState({ ...designState, instructions: e.target.value })
setInstructions(v) ==
  /\ StudioOpen
  /\ v # designState.instructions
  /\ designState' = [designState EXCEPT !.instructions = v]
  /\ toast' = toast
  /\ UNCHANGED <<service, error, graph, videos, videoState, isGenerating, arrs, imgReqs,
                 vidReqs, ids>>

\* prev.selectedPresets.includes(id) ? filter(...) : [...prev.selectedPresets, id]
ToggledPresets(presets, id) ==
  IF id \in Range(presets)
    THEN LET Keep(p) == p # id IN SelectSeq(presets, Keep)
    ELSE Append(presets, id)

\* the array a setter leaves behind: a new array at a new address, the old
\* array untouched
NewArray(a) == Append(arrs, a)

\* (C7) prev.selectedPresets written in place: the array every holder of
\* its address sees
SetSelectedPresets_inPlace(a) ==
  [arrs |-> [arrs EXCEPT ![designState.selectedPresets] = a],
   designState |-> designState]

\* setDesignState(prev => ({ ...prev, selectedPresets: a })): a new object
\* that points at the new array
SetSelectedPresets(a) ==
  [arrs |-> NewArray(a),
   designState |-> [designState EXCEPT !.selectedPresets = Len(arrs) + 1]]

togglePreset(id) ==
  /\ StudioOpen
  /\ Len(arrs) + 1 <= MaxArrs
  /\ LET set == SetSelectedPresets(
                  ToggledPresets(arrs[designState.selectedPresets], id)) IN
       /\ arrs' = set.arrs
       /\ designState' = set.designState
  /\ toast' = toast
  /\ UNCHANGED <<service, error, graph, videos, videoState, isGenerating, imgReqs,
                 vidReqs, ids>>

\* the Add Asset input: customItems: [...p.customItems, ni]
addCustomItem(image) ==
  /\ StudioOpen
  /\ nextItemId <= MaxItems
  /\ Len(arrs) + 1 <= MaxArrs
  /\ LET ni == [id |-> nextItemId, image |-> image, instruction |-> ""] IN
       arrs' = NewArray(Append(arrs[designState.customItems], ni))
  /\ designState' = [designState EXCEPT !.customItems = Len(arrs) + 1]
  /\ nextItemId' = nextItemId + 1
  /\ toast' = toast
  /\ UNCHANGED <<service, error, graph, videos, videoState, isGenerating, imgReqs,
                 vidReqs, nextVersionId, nextVideoId>>

\* setVideoState({ ...videoState, resolution: res })
setVideoResolution(res) ==
  /\ StudioOpen
  /\ res # videoState.resolution
  /\ videoState' = [videoState EXCEPT !.resolution = res]
  /\ toast' = toast
  /\ UNCHANGED <<service, error, graph, videos, designState, isGenerating, arrs, imgReqs,
                 vidReqs, ids>>

\* --------------------------------------------------------- handleGenerate
\* The click.  <Button isLoading={isGenerating}> is disabled while the busy
\* flag is set (Button: disabled={isLoading || disabled}).  The closure keeps
\* currentVersion, designState and versions.
GenerateButtonEnabled == StudioOpen /\ ~isGenerating

handleGenerate ==
  /\ GenerateButtonEnabled
  /\ HasCurrentVersion                  \* if (!currentVersion) return
  /\ Len(imgReqs) < MaxImgReqs
  /\ isGenerating' = TRUE
  /\ imgReqs' = Append(imgReqs,
       [parent |-> currentVersion.id, image |-> currentVersion.imageUrl,
        config |-> designState, count |-> Len(versions)])
  /\ toast' = toast
  /\ UNCHANGED <<service, error, graph, videos, designState, videoState, arrs, vidReqs,
                 ids>>

\* promptUsed: designState.instructions || `Iteration ${versions.length + 1}`
PromptUsed(req) ==
  IF req.config.instructions # ""
    THEN [text |-> req.config.instructions, n |-> 0]
    ELSE [text |-> "Iteration", n |-> req.count + 1]

\* (C1) the parent read when the reply arrives and not at the click
ParentOf_atReply(req) == currentVersionId

\* (C22) the parent of the version of the click as the parent
ParentOf_grandparent(req) ==
  IF Has(versions, req.parent) THEN Find(versions, req.parent).parentId
  ELSE req.parent

\* parentId: currentVersion.id (the version of the click)
ParentOf(req) == req.parent

\* (C21) a linear history: the new version takes the place of its parent
Appended_overParent(prev, newVersion) ==
  LET Keep(v) == v.id # newVersion.parentId
  IN Append(SelectSeq(prev, Keep), newVersion)

\* setVersions(prev => [...prev, newVersion])
Appended(prev, newVersion) == Append(prev, newVersion)

\* (C24) a success path that does not reach the finally
handleGenerateResolved_noFinally(i) ==
  /\ i \in DOMAIN imgReqs
  /\ nextVersionId <= MaxVersions
  /\ \E t \in Clock :
       LET req == imgReqs[i]
           newVersion ==
             [id |-> nextVersionId, parentId |-> ParentOf(req), timestamp |-> t,
              imageUrl |-> "render", config |-> req.config,
              promptUsed |-> PromptUsed(req)]
       IN /\ versions' = Appended(versions, newVersion)
          /\ currentVersionId' = newVersion.id
  /\ nextVersionId' = nextVersionId + 1
  /\ imgReqs' = RemoveAt(imgReqs, i)
  /\ toast' = "Design iteration complete!"
  /\ UNCHANGED <<service, error, videos, designState, videoState, arrs, vidReqs,
                 nextVideoId, nextItemId, isGenerating>>

\* (C27) the DesignState of the moment of the reply as the config
handleGenerateResolved_liveConfig(i) ==
  /\ i \in DOMAIN imgReqs
  /\ nextVersionId <= MaxVersions
  /\ \E t \in Clock :
       LET req == imgReqs[i]
           newVersion ==
             [id |-> nextVersionId, parentId |-> ParentOf(req), timestamp |-> t,
              imageUrl |-> "render", config |-> designState,
              promptUsed |-> PromptUsed(req)]
       IN /\ versions' = Appended(versions, newVersion)
          /\ currentVersionId' = newVersion.id
  /\ nextVersionId' = nextVersionId + 1
  /\ isGenerating' = FALSE
  /\ imgReqs' = RemoveAt(imgReqs, i)
  /\ toast' = "Design iteration complete!"
  /\ UNCHANGED <<service, error, videos, designState, videoState, arrs, vidReqs,
                 nextVideoId, nextItemId>>

\* generateDesignIteration resolved: the node is appended to the versions of
\* the moment and made current
handleGenerateResolved(i) ==
  /\ i \in DOMAIN imgReqs
  /\ nextVersionId <= MaxVersions
  /\ \E t \in Clock :
       LET req == imgReqs[i]
           newVersion ==
             [id |-> nextVersionId, parentId |-> ParentOf(req), timestamp |-> t,
              imageUrl |-> "render",
              config |-> req.config,                     \* { ...designState }
              promptUsed |-> PromptUsed(req)]
       IN /\ versions' = Appended(versions, newVersion)
          /\ currentVersionId' = newVersion.id
  /\ nextVersionId' = nextVersionId + 1
  /\ isGenerating' = FALSE                               \* finally
  /\ imgReqs' = RemoveAt(imgReqs, i)
  /\ toast' = "Design iteration complete!"
  /\ UNCHANGED <<service, error, videos, designState, videoState, arrs, vidReqs,
                 nextVideoId, nextItemId>>

\* ------------------------------------------------------ handleEngineError
\* what a rejected generation throws (err.message); navigator.onLine is taken
\* to be true
Errors == {"API_KEY_ERROR", ""}

\* s.includes(t), for the texts above
Includes(s, t) ==
  \/ t = "429" /\ s \in {"429 quota exceeded"}
  \/ t = "Network" /\ s \in {"Network unreachable"}
  \/ t = "block" /\ s \in {"Request blocked",
                           "The design was blocked by safety filters."}
  \/ t = "not found" /\ s \in {"Requested entity was not found."}

EngineErrorMessage(err) ==
  IF err = "API_KEY_ERROR" THEN "API Key issue. Please re-select your key."
  ELSE IF Includes(err, "429") THEN "The AI designer is taking a short breather."
  ELSE IF Includes(err, "Network") THEN "Check your internet connection and try again."
  ELSE IF err # "" THEN err
  ELSE "Oops! We encountered a small hiccup."

\* addToast(userMessage, 'error'); nothing else of the App state is written
handleEngineError(err) == toast' = EngineErrorMessage(err)

\* (C10) a catch without the finally: the busy flag stays set
handleGenerateRejected_noFinally(i) ==
  /\ i \in DOMAIN imgReqs
  /\ \E err \in Errors : toast' = EngineErrorMessage(err)
  /\ imgReqs' = RemoveAt(imgReqs, i)
  /\ UNCHANGED <<service, error, graph, videos, designState, videoState, isGenerating,
                 arrs, vidReqs, ids>>

\* generateDesignIteration rejected: catch -> handleEngineError (a toast),
\* finally -> setIsGenerating(false)
handleGenerateRejected(i) ==
  /\ i \in DOMAIN imgReqs
  /\ \E err \in Errors : handleEngineError(err)            \* catch
  /\ isGenerating' = FALSE                               \* finally
  /\ imgReqs' = RemoveAt(imgReqs, i)
  /\ UNCHANGED <<service, error, graph, videos, designState, videoState, arrs, vidReqs,
                 ids>>

\* ---------------------------------------------------- handleGenerateVideo
VideoButtonEnabled == StudioOpen /\ ~isGenerating

\* The click: the closure keeps currentVersion and videoState, then awaits
\* ensureApiKey() BEFORE the busy flag is set.
handleGenerateVideo ==
  /\ VideoButtonEnabled
  /\ HasCurrentVersion                  \* if (!currentVersion) return
  /\ Len(vidReqs) < MaxVidReqs
  /\ vidReqs' = Append(vidReqs,
       [pc |-> "hasSelectedApiKey", thumbnail |-> currentVersion.imageUrl,
        config |-> videoState])
  /\ toast' = toast
  /\ UNCHANGED <<service, error, graph, videos, designState, videoState, isGenerating,
                 arrs, imgReqs, ids>>

\* ensureApiKey: hasSelectedApiKey() answered.  With a key the handler goes on
\* to setIsGenerating(true) and calls generateDesignVideo; without one it
\* awaits openSelectKey().
ensureApiKeyAnswered(i, hasKey) ==
  /\ i \in DOMAIN vidReqs
  /\ vidReqs[i].pc = "hasSelectedApiKey"
  /\ IF hasKey
       THEN /\ isGenerating' = TRUE
            /\ vidReqs' = [vidReqs EXCEPT ![i].pc = "generateDesignVideo"]
            /\ toast' = toast
       ELSE /\ isGenerating' = isGenerating
            /\ vidReqs' = [vidReqs EXCEPT ![i].pc = "openSelectKey"]
            /\ toast' = "A paid project API key is required"
  /\ UNCHANGED <<service, error, graph, videos, designState, videoState, arrs, imgReqs,
                 ids>>

\* ensureApiKey: openSelectKey() returned
ensureApiKeySelected(i) ==
  /\ i \in DOMAIN vidReqs
  /\ vidReqs[i].pc = "openSelectKey"
  /\ isGenerating' = TRUE
  /\ vidReqs' = [vidReqs EXCEPT ![i].pc = "generateDesignVideo"]
  /\ toast' = toast
  /\ UNCHANGED <<service, error, graph, videos, designState, videoState, arrs, imgReqs,
                 ids>>

\* generateDesignVideo resolved with the object URL of the video
handleGenerateVideoResolved(i) ==
  /\ i \in DOMAIN vidReqs
  /\ vidReqs[i].pc = "generateDesignVideo"
  /\ nextVideoId <= MaxVideos
  /\ LET req == vidReqs[i]
         newVideo ==
           [id |-> nextVideoId, videoUrl |-> "blob",
            thumbnailUrl |-> req.thumbnail, prompt |-> req.config.prompt,
            config |-> req.config]                       \* { ...videoState }
     IN /\ videoVersions' = Append(videoVersions, newVideo)
        /\ currentVideoId' = newVideo.id
  /\ nextVideoId' = nextVideoId + 1
  /\ isGenerating' = FALSE                               \* finally
  /\ vidReqs' = RemoveAt(vidReqs, i)
  /\ toast' = "Video showcase ready!"
  /\ UNCHANGED <<service, error, graph, designState, videoState, arrs, imgReqs,
                 nextVersionId, nextItemId>>

\* generateDesignVideo rejected: catch -> handleEngineError, finally
handleGenerateVideoRejected(i) ==
  /\ i \in DOMAIN vidReqs
  /\ vidReqs[i].pc = "generateDesignVideo"
  /\ \E err \in Errors : handleEngineError(err)            \* catch
  /\ isGenerating' = FALSE                               \* finally
  /\ vidReqs' = RemoveAt(vidReqs, i)
  /\ UNCHANGED <<service, error, graph, videos, designState, videoState, arrs, imgReqs,
                 ids>>

\* ============================================================ src/App.tsx
\* The App of src/App.tsx: one upload (the start screen is rendered while
\* versions.length === 0 and nothing empties the list), the design form with
\* its custom items, generate, select and undo.  It has no video studio, no
\* toast and no deletion; those variables stay as Init left them.
part2only == <<videoVersions, currentVideoId, videoState, toast, vidReqs,
               nextVideoId, service>>

INITIAL_STATE_V1 ==
  [instructions |-> "", customItems |-> INITIAL_STATE_customItems]

InitV1 ==
  /\ versions = <<>>
  /\ videoVersions = <<>>
  /\ currentVersionId = null
  /\ currentVideoId = null
  /\ designState = INITIAL_STATE_V1
  /\ videoState = INITIAL_VIDEO_STATE
  /\ isGenerating = FALSE
  /\ toast = ""
  /\ error = null
  /\ arrs = << <<>> >>
  /\ imgReqs = <<>>
  /\ vidReqs = <<>>
  /\ nextVersionId = 1
  /\ nextVideoId = 1
  /\ nextItemId = 1
  /\ apiKey = "key"
  /\ call = NoCall

\* if (versions.length === 0) the start screen is returned, else the studio
StartScreenV1 == Len(versions) = 0

handleFileUploadV1(photo) ==
  /\ StartScreenV1
  /\ nextVersionId <= MaxVersions
  /\ \E t \in Clock :
       LET newVersion ==
             [id |-> nextVersionId, parentId |-> null, timestamp |-> t,
              imageUrl |-> photo,
              config |-> INITIAL_STATE_V1,             \* the object itself
              promptUsed |-> "Initial Upload"]
       IN /\ versions' = <<newVersion>>
          /\ currentVersionId' = newVersion.id
  /\ designState' = INITIAL_STATE_V1
  /\ nextVersionId' = nextVersionId + 1
  /\ UNCHANGED <<part2only, isGenerating, error, arrs, imgReqs, nextItemId>>

\* setDesignState({...designState, instructions: e.target.value})
setInstructionsV1(v) ==
  /\ ~StartScreenV1
  /\ v # designState.instructions
  /\ designState' = [designState EXCEPT !.instructions = v]
  /\ UNCHANGED <<part2only, graph, isGenerating, error, arrs, imgReqs,
                 nextVersionId, nextItemId>>

\* customItems: [...prev.customItems, newItem]
handleCustomItemUpload(image) ==
  /\ ~StartScreenV1
  /\ nextItemId <= MaxItems
  /\ Len(arrs) + 1 <= MaxArrs
  /\ LET newItem == [id |-> nextItemId, image |-> image, instruction |-> ""] IN
       arrs' = NewArray(Append(arrs[designState.customItems], newItem))
  /\ designState' = [designState EXCEPT !.customItems = Len(arrs) + 1]
  /\ nextItemId' = nextItemId + 1
  /\ UNCHANGED <<part2only, graph, isGenerating, error, imgReqs,
                 nextVersionId>>

\* customItems: prev.customItems.filter(item => item.id !== id); the button
\* belongs to an item of the list
removeCustomItem(id) ==
  /\ ~StartScreenV1
  /\ \E item \in Range(arrs[designState.customItems]) : item.id = id
  /\ Len(arrs) + 1 <= MaxArrs
  /\ LET Keep(item) == item.id # id IN
       arrs' = NewArray(SelectSeq(arrs[designState.customItems], Keep))
  /\ designState' = [designState EXCEPT !.customItems = Len(arrs) + 1]
  /\ UNCHANGED <<part2only, graph, isGenerating, error, imgReqs,
                 nextVersionId, nextItemId>>

\* customItems: prev.customItems.map(item =>
\*   item.id === id ? { ...item, instruction: text } : item)
updateCustomItemInstruction(id, text) ==
  /\ ~StartScreenV1
  /\ \E item \in Range(arrs[designState.customItems]) :
       item.id = id /\ item.instruction # text
  /\ Len(arrs) + 1 <= MaxArrs
  /\ LET items == arrs[designState.customItems]
         mapped == [k \in DOMAIN items |->
                     IF items[k].id = id
                       THEN [items[k] EXCEPT !.instruction = text]
                       ELSE items[k]]
     IN arrs' = NewArray(mapped)
  /\ designState' = [designState EXCEPT !.customItems = Len(arrs) + 1]
  /\ UNCHANGED <<part2only, graph, isGenerating, error, imgReqs,
                 nextVersionId, nextItemId>>

\* the click on either Generate button (isLoading={isGenerating})
handleGenerateV1 ==
  /\ ~StartScreenV1
  /\ ~isGenerating
  /\ HasCurrentVersion                  \* if (!currentVersion) return
  /\ Len(imgReqs) < MaxImgReqs
  /\ isGenerating' = TRUE
  /\ error' = null
  /\ imgReqs' = Append(imgReqs,
       [parent |-> currentVersion.id, image |-> currentVersion.imageUrl,
        config |-> designState, count |-> Len(versions)])
  /\ UNCHANGED <<part2only, graph, designState, arrs, nextVersionId,
                 nextItemId>>

\* promptUsed: designState.instructions || `Apply ${designState.style} style`
PromptUsedV1(req) ==
  IF req.config.instructions # "" THEN req.config.instructions
  ELSE "Apply Modern style"

handleGenerateResolvedV1(i) ==
  /\ i \in DOMAIN imgReqs
  /\ nextVersionId <= MaxVersions
  /\ \E t \in Clock :
       LET req == imgReqs[i]
           newVersion ==
             [id |-> nextVersionId, parentId |-> req.parent, timestamp |-> t,
              imageUrl |-> "render",
              config |-> req.config,                     \* { ...designState }
              promptUsed |-> PromptUsedV1(req)]
       IN /\ versions' = Append(versions, newVersion)
          /\ currentVersionId' = newVersion.id
  /\ nextVersionId' = nextVersionId + 1
  /\ isGenerating' = FALSE                               \* finally
  /\ imgReqs' = RemoveAt(imgReqs, i)
  /\ UNCHANGED <<part2only, designState, error, arrs, nextItemId>>

\* catch: setError(err.message || "Failed to generate design.")
handleGenerateRejectedV1(i) ==
  /\ i \in DOMAIN imgReqs
  /\ \E err \in Errors :
       error' = IF err # "" THEN err ELSE "Failed to generate design."
  /\ isGenerating' = FALSE                               \* finally
  /\ imgReqs' = RemoveAt(imgReqs, i)
  /\ UNCHANGED <<part2only, graph, designState, arrs, nextVersionId,
                 nextItemId>>

\* setCurrentVersionId(id) comes first and is not conditional; the DesignState
\* becomes selected.config (the stored object itself) when there is one
handleSelectVersionV1(id) ==
  /\ currentVersionId' = id
  /\ designState' = IF Has(versions, id) THEN Find(versions, id).config
                                         ELSE designState

\* the version handleUndo selects: versions[currentIndex - 1]
UndoTarget(currentIndex) == versions[currentIndex - 1]

\* currentIndex = versions.findIndex(...) counts from 0 and is -1 for no
\* match; FindIndex counts from 1 and is 0 for no match
handleUndo ==
  /\ ~StartScreenV1
  /\ LET currentIndex == FindIndex(versions, currentVersionId) IN
       IF currentIndex > 1
         THEN handleSelectVersionV1(UndoTarget(currentIndex).id)
         ELSE UNCHANGED <<currentVersionId, designState>>
  /\ UNCHANGED <<part2only, versions, isGenerating, error, arrs, imgReqs,
                 nextVersionId, nextItemId>>

\* a click on a history item, or a call with any other id
selectVersionV1(id) ==
  /\ ~StartScreenV1
  /\ handleSelectVersionV1(id)
  /\ UNCHANGED <<part2only, versions, isGenerating, error, arrs, imgReqs,
                 nextVersionId, nextItemId>>

\* ====================================================== geminiService.ts
\* A JavaScript string is the sequence of its pieces: a piece is a run of
\* characters that the code never looks into, or one of the marks it looks
\* for ("data:" at the start of a data URI, the "," that ends its header).
UrlPieces == {"data:", ",", "image/png;base64", "AAAA"}

RECURSIVE SeqsUpTo(_, _)
\* the sequences over S of length at most n
SeqsUpTo(S, n) ==
  IF n = 0 THEN {<<>>}
  ELSE LET shorter == SeqsUpTo(S, n - 1) IN
         shorter \cup {Append(q, x) : q \in {r \in shorter : Len(r) = n - 1},
                                      x \in S}

Urls == SeqsUpTo(UrlPieces, MaxUrlLen)

\* what is not a string: the value of a[1] past the end of a, and the
\* TypeError of undefined.startsWith
undefined == <<"undefined">>
TypeError == <<"TypeError">>

\* url.startsWith(prefix), prefix one piece
StartsWith(url, prefix) == Len(url) > 0 /\ url[1] = prefix

\* the positions of the separator in a string
SeparatorsAt(str, sep) == {i \in DOMAIN str : str[i] = sep}

\* str.split(sep)[0]
Split0(str, sep) ==
  LET at == SeparatorsAt(str, sep) IN
    IF at = {} THEN str
    ELSE SubSeq(str, 1, (CHOOSE i \in at : \A j \in at : i <= j) - 1)

\* str.split(sep)[1]: what lies between the first separator and the second
\* (or the end); undefined when there is no separator
Split1(str, sep) ==
  LET at == SeparatorsAt(str, sep) IN
    IF at = {} THEN undefined
    ELSE LET first == CHOOSE i \in at : \A j \in at : i <= j
             later == {i \in at : i > first}
             stop == IF later = {} THEN Len(str) + 1
                     ELSE CHOOSE i \in later : \A j \in later : i <= j
         IN SubSeq(str, first + 1, stop - 1)

\* (C15) the header kept and the payload dropped
getBase64FromUrl_header(url) ==
  IF StartsWith(url, "data:") THEN Split0(url, ",") ELSE url

\* getBase64FromUrl; called with undefined it throws the TypeError
getBase64FromUrl(url) ==
  IF url \in {undefined, TypeError} THEN TypeError
  ELSE IF StartsWith(url, "data:") THEN Split1(url, ",")
  ELSE url

\* ------------------------------------------- generateDesignIteration: parts
DataUri(data) == <<"data:", "image/png;base64", ",">> \o data
ImageData == {<<"AAAA">>, <<"BBBB">>}
ImageRefs == {DataUri(<<"AAAA">>), <<"BBBB">>}

\* the DesignState as generateDesignIteration reads it: the strings that go
\* into the request description (instructions stands for them), the
\* optional inspirationImage ("" and undefined are both falsy: <<>>), and
\* the custom items in their order
CustomItems ==
  {[instruction |-> "", image |-> <<"BBBB">>],
   [instruction |-> "by the window", image |-> DataUri(<<"AAAA">>)]}
ServiceConfigs ==
  [instructions : InstructionTexts,
   inspirationImage : {<<>>, DataUri(<<"AAAA">>)},
   customItems : SeqsUpTo(CustomItems, MaxServiceItems)]

SYSTEM_PROMPT == "You are VibeArchitect"

TextPart(text) == [text |-> text]
InlineData(data) == [inlineData |-> [mimeType |-> "image/png", data |-> data]]

\* the two parts pushed for a custom item
ItemParts(item) ==
  << TextPart(<<"PLACE THIS FURNITURE: ",
                IF item.instruction # "" THEN item.instruction
                ELSE "Natural placement.">>),
     InlineData(getBase64FromUrl(item.image)) >>

RECURSIVE ItemsParts(_)
\* for (const item of config.customItems) { parts.push(...); parts.push(...) }
ItemsParts(items) ==
  IF items = <<>> THEN <<>>
  ELSE ItemParts(Head(items)) \o ItemsParts(Tail(items))

\* (C14) the inspiration pushed after the custom items
Parts_inspirationLast(currentImage, config) ==
  << TextPart(<<SYSTEM_PROMPT>>),
     TextPart(<<"REDESIGN REQUEST:", config.instructions>>),
     InlineData(getBase64FromUrl(currentImage)) >>
  \o ItemsParts(config.customItems)
  \o (IF config.inspirationImage # <<>>
        THEN << TextPart(<<"STYLE INSPIRATION REFERENCE:">>),
                InlineData(getBase64FromUrl(config.inspirationImage)) >>
        ELSE <<>>)

\* const parts = [...]; if (config.inspirationImage) ...; for (...) ...
Parts(currentImage, config) ==
  << TextPart(<<SYSTEM_PROMPT>>),
     TextPart(<<"REDESIGN REQUEST:", config.instructions>>),
     InlineData(getBase64FromUrl(currentImage)) >>
  \o (IF config.inspirationImage # <<>>
        THEN << TextPart(<<"STYLE INSPIRATION REFERENCE:">>),
                InlineData(getBase64FromUrl(config.inspirationImage)) >>
        ELSE <<>>)
  \o ItemsParts(config.customItems)

generateDesignIteration_keyUnchecked(currentImage, config) ==
  /\ call.pc = "idle"
  /\ call' = [fn |-> "generateDesignIteration", pc |-> "generateContent",
              requests |-> <<"generateContent">>,
              currentImage |-> currentImage, config |-> config,
              parts |-> Parts(currentImage, config)]
  /\ UNCHANGED <<app, apiKey>>

\* The call up to its await: the check of the key, then the parts and the
\* request.  requests lists what the call has sent so far.
generateDesignIteration(currentImage, config) ==
  /\ call.pc = "idle"
  /\ IF apiKey = ""
       THEN call' = [fn |-> "generateDesignIteration", pc |-> "thrown",
                     requests |-> <<>>,
                     message |-> "Missing API key configuration."]
       ELSE call' = [fn |-> "generateDesignIteration", pc |-> "generateContent",
                     requests |-> <<"generateContent">>,
                     currentImage |-> currentImage, config |-> config,
                     parts |-> Parts(currentImage, config)]
  /\ UNCHANGED <<app, apiKey>>

\* --------------------------------------- generateDesignIteration: the reply
\* The text of the reply is the sequence of its pieces: a character, or a
\* "key": value member of a JSON object (its quotes, colon and comma
\* included), which the code only meets through JSON.parse.
Ch(c) == [ch |-> c]
Chars(s) == [i \in DOMAIN s |-> Ch(s[i])]
Member(key, value) == [ch |-> "member", key |-> key, value |-> value]

\* JSON values, and undefined for a member that is not there
Str(v) == [t |-> "string", v |-> v]
Num(v) == [t |-> "number", v |-> v]
Arr(v) == [t |-> "array", v |-> v]
JsonNull == [t |-> "null", v |-> "null"]
JsonUndefined == [t |-> "undefined", v |-> "undefined"]

\* what the model may put under each of the four keys
VibeSummaryValues == {JsonUndefined, Str("Cozy loft"), Str(""), Num("42"), JsonNull}
ReasoningValues == {JsonUndefined, Str("Warm light"), Num("42")}
SuggestionsValues == {JsonUndefined, Arr("[]"), Arr("[Add a rug]"), Str("Add a rug")}
SustainabilityScoreValues == {JsonUndefined, Num("9"), Num("0"), Str("high")}

\* the members of an object, those that are there
Members(vibeSummary, reasoning, suggestions, sustainabilityScore) ==
  LET One(key, value) ==
        IF value = JsonUndefined THEN <<>> ELSE <<Member(key, value)>>
  IN One("vibeSummary", vibeSummary) \o One("reasoning", reasoning)
     \o One("suggestions", suggestions)
     \o One("sustainabilityScore", sustainabilityScore)

MetadataTexts ==
  {<<Ch("{")>> \o Members(a, b, c, d) \o <<Ch("}")>> :
     a \in VibeSummaryValues, b \in ReasoningValues,
     c \in SuggestionsValues, d \in SustainabilityScoreValues}

OtherTexts ==
  {Chars(<<"I", " ", "C", "A", "N">>), Chars(<<"n", "o", "t">>),
   Chars(<<"R", "e", "f", "u", "s", "e", "d">>),
   Chars(<<"u", "n", "s", "a", "f", "e">>),
   Chars(<<"S", "a", "f", "e", "t", "y">>),
   Chars(<<"o", "k">>),
   Chars(<<"{", "o", "k", "}">>),
   <<Ch("{"), Member("vibeSummary", Str("Cozy loft"))>>,
   <<Ch("."), Ch("{"), Member("vibeSummary", Str("Cozy loft")),
     Member("suggestions", Arr("[]")), Ch("}"), Ch(".")>>}

TextsAfter ==
  {Chars(<<"n", "o", "t">>), <<Ch("}")>>,
   <<Ch("{"), Member("reasoning", Str("Warm light")), Ch("}")>>}

\* the replies: no content at all, or text and image parts in some order
Replies ==
  {[content |-> FALSE, parts |-> <<>>]} \cup
  {[content |-> TRUE, parts |-> before \o images \o after] :
     before \in {<<>>} \cup {<<TextPart(t)>> : t \in MetadataTexts \cup OtherTexts},
     images \in SeqsUpTo({InlineData(d) : d \in ImageData}, MaxReplyImages),
     after \in {<<>>} \cup {<<TextPart(t)>> : t \in TextsAfter}}

IsImagePart(part) == "inlineData" \in DOMAIN part

RECURSIVE ScannedImage(_, _)
\* for (const part of parts) if (part.inlineData) imageUrl = `data:...`
ScannedImage(parts, imageUrl) ==
  IF parts = <<>> THEN imageUrl
  ELSE ScannedImage(Tail(parts),
         IF IsImagePart(Head(parts))
           THEN DataUri(Head(parts).inlineData.data)
           ELSE imageUrl)

RECURSIVE ScannedText(_, _)
\* ... else if (part.text) metadataStr += part.text
ScannedText(parts, metadataStr) ==
  IF parts = <<>> THEN metadataStr
  ELSE ScannedText(Tail(parts),
         IF IsImagePart(Head(parts)) THEN metadataStr
         ELSE metadataStr \o Head(parts).text)

\* c.toLowerCase()
LowerCase(c) ==
  CASE c = "A" -> "a" [] c = "C" -> "c" [] c = "I" -> "i" [] c = "N" -> "n"
    [] c = "R" -> "r" [] c = "S" -> "s" [] OTHER -> c
ToLowerCase(text) == [i \in DOMAIN text |-> [text[i] EXCEPT !.ch = LowerCase(@)]]

\* text.includes(word), word a sequence of characters
TextIncludes(text, word) ==
  \E i \in 1..(Len(text) - Len(word) + 1) :
    \A j \in 1..Len(word) : text[i + j - 1].ch = word[j]

RefusalKeywords ==
  {<<"s", "a", "f", "e", "t", "y">>, <<"c", "a", "n", "n", "o", "t">>,
   <<"r", "e", "f", "u", "s", "e">>}

Refused_caseSensitive(metadataStr) ==
  \E word \in RefusalKeywords : TextIncludes(metadataStr, word)

Refused(metadataStr) ==
  \E word \in RefusalKeywords : TextIncludes(ToLowerCase(metadataStr), word)

NoContentMessage == "The designer couldn't process this image."
DeclinedMessage == "The design engine declined to generate this specific visual."
UnableMessage == "VibeArchitect was unable to generate a redesigned image."
SafetyFilterMessage == "The design was blocked by safety filters."

\* metadataStr.match(/\{[\s\S]*\}/): from the first "{" to the last "}"
\* after it; <<>> for null
JsonMatch(text) ==
  LET opens == {i \in DOMAIN text : text[i].ch = "{"} IN
    IF opens = {} THEN <<>>
    ELSE LET first == CHOOSE i \in opens : \A j \in opens : i <= j
             closes == {i \in DOMAIN text : text[i].ch = "}" /\ i > first}
         IN IF closes = {} THEN <<>>
            ELSE SubSeq(text, first, CHOOSE i \in closes : \A j \in closes : j <= i)

\* JSON.parse accepts the match when there is nothing but members and
\* blanks between its braces
Parses(match) ==
  \A i \in 2..(Len(match) - 1) : match[i].ch \in {"member", " "}

\* parsed[key]: the last member of that key, undefined without one
Property(match, key) ==
  LET at == {i \in DOMAIN match : match[i].ch = "member" /\ match[i].key = key} IN
    IF at = {} THEN JsonUndefined
    ELSE match[CHOOSE i \in at : \A j \in at : j <= i].value

Truthy(x) ==
  ~ \/ x.t \in {"undefined", "null"}
    \/ x.t = "string" /\ x.v = ""
    \/ x.t = "number" /\ x.v = "0"

DefaultMetadata ==
  [vibeSummary |-> Str("New atmosphere generated."),
   reasoning |-> Str("Balanced the new style with existing architectural constraints."),
   suggestions |-> Arr("[Add indoor plants, Include accent lighting, Try a different wall color, Add window treatments]"),
   sustainabilityScore |-> Num("7")]

ParsedMetadata_noDefaults(metadataStr) ==
  LET jsonMatch == JsonMatch(metadataStr) IN
    [vibeSummary |-> Property(jsonMatch, "vibeSummary"),
     reasoning |-> Property(jsonMatch, "reasoning"),
     suggestions |-> Property(jsonMatch, "suggestions"),
     sustainabilityScore |-> Property(jsonMatch, "sustainabilityScore")]

ParsedMetadata_anyArray(metadataStr) ==
  LET jsonMatch == JsonMatch(metadataStr) IN
    IF jsonMatch # <<>> /\ Parses(jsonMatch)
      THEN LET vibeSummary == Property(jsonMatch, "vibeSummary")
               reasoning == Property(jsonMatch, "reasoning")
               suggestions == Property(jsonMatch, "suggestions")
               sustainabilityScore == Property(jsonMatch, "sustainabilityScore")
           IN [vibeSummary |-> IF Truthy(vibeSummary) THEN vibeSummary
                                ELSE DefaultMetadata.vibeSummary,
               reasoning |-> IF Truthy(reasoning) THEN reasoning
                              ELSE DefaultMetadata.reasoning,
               suggestions |->
                 IF suggestions.t = "array"
                   THEN suggestions ELSE DefaultMetadata.suggestions,
               sustainabilityScore |->
                 IF sustainabilityScore.t = "number" THEN sustainabilityScore
                 ELSE DefaultMetadata.sustainabilityScore]
      ELSE DefaultMetadata

\* the try block of the metadata: defaults unless a match parses
ParsedMetadata(metadataStr) ==
  LET jsonMatch == JsonMatch(metadataStr) IN
    IF jsonMatch # <<>> /\ Parses(jsonMatch)
      THEN LET vibeSummary == Property(jsonMatch, "vibeSummary")
               reasoning == Property(jsonMatch, "reasoning")
               suggestions == Property(jsonMatch, "suggestions")
               sustainabilityScore == Property(jsonMatch, "sustainabilityScore")
           IN [vibeSummary |-> IF Truthy(vibeSummary) THEN vibeSummary
                                ELSE DefaultMetadata.vibeSummary,
               reasoning |-> IF Truthy(reasoning) THEN reasoning
                              ELSE DefaultMetadata.reasoning,
               suggestions |->
                 IF suggestions.t = "array" /\ suggestions.v # "[]"
                   THEN suggestions ELSE DefaultMetadata.suggestions,
               sustainabilityScore |->
                 IF sustainabilityScore.t = "number" THEN sustainabilityScore
                 ELSE DefaultMetadata.sustainabilityScore]
      ELSE DefaultMetadata

\* the catch of generateDesignIteration
Rethrown(message) ==
  IF Includes(message, "block") THEN SafetyFilterMessage ELSE message

\* the try block after the await: what the call ends with
Outcome(reply) ==
  IF ~reply.content THEN [pc |-> "thrown", message |-> Rethrown(NoContentMessage)]
  ELSE LET imageUrl == ScannedImage(reply.parts, <<>>)
           metadataStr == ScannedText(reply.parts, <<>>)
       IN IF imageUrl = <<>>
            THEN [pc |-> "thrown",
                  message |-> Rethrown(IF Refused(metadataStr)
                                         THEN DeclinedMessage ELSE UnableMessage)]
            ELSE [pc |-> "returned",
                  result |-> [imageUrl |-> imageUrl]
                               @@ ParsedMetadata(metadataStr)]

\* generateContent answered
generateContentReplied(reply) ==
  /\ call.fn = "generateDesignIteration"
  /\ call.pc = "generateContent"
  /\ call' = [fn |-> call.fn, requests |-> call.requests, reply |-> reply]
              @@ Outcome(reply)
  /\ UNCHANGED <<app, apiKey>>

\* what a failed request throws
TransportErrors == {"Network unreachable", "Request blocked", "429 quota exceeded"}

\* generateContent threw
generateContentRejected(err) ==
  /\ call.fn = "generateDesignIteration"
  /\ call.pc = "generateContent"
  /\ call' = [fn |-> call.fn, requests |-> call.requests, pc |-> "thrown",
              message |-> Rethrown(err)]
  /\ UNCHANGED <<app, apiKey>>

\* ------------------------------------------------- generateDesignVideo
\* new GoogleGenAI({ apiKey }) stands before the try and the function has no
\* check of the key of its own: with the key absent the constructor of the
\* library either throws or returns a client, and the call goes on with it.
\* The call up to its first await.
generateDesignVideo(imageBase64, config) ==
  /\ call.pc = "idle"
  /\ \E constructed \in IF apiKey = "" THEN BOOLEAN ELSE {TRUE} :
       IF constructed
         THEN call' = [fn |-> "generateDesignVideo", pc |-> "generateVideos",
                       requests |-> <<"generateVideos">>,
                       imageBytes |-> getBase64FromUrl(imageBase64),
                       resolution |-> config.resolution]
         ELSE call' = [fn |-> "generateDesignVideo", pc |-> "thrown",
                       requests |-> <<>>,
                       message |-> "An API Key must be set"]
  /\ UNCHANGED <<app, apiKey>>

\* what generateVideos and getVideosOperation answer with
Operations == [done : BOOLEAN, uri : {"", "https://video"}]

Polls == Len(SelectSeq(call.requests, LAMBDA r : r = "getVideosOperation"))

\* generateVideos or getVideosOperation answered: wait while the operation
\* is not done, then throw without a URI, fetch with one
operationReceived(operation) ==
  /\ call.fn = "generateDesignVideo"
  /\ call.pc \in {"generateVideos", "getVideosOperation"}
  /\ ~operation.done => Polls < MaxPolls
  /\ IF ~operation.done
       THEN call' = [call EXCEPT !.pc = "setTimeout"]
       ELSE IF operation.uri = ""
         THEN call' = [fn |-> call.fn, pc |-> "thrown", requests |-> call.requests,
                       message |-> "Video generation failed: No URI returned."]
         ELSE call' = [call EXCEPT !.pc = "fetch",
                                   !.requests = Append(@, "fetch")]
  /\ UNCHANGED <<app, apiKey>>

\* the ten seconds are over: ask for the operation again
setTimeoutFired ==
  /\ call.fn = "generateDesignVideo"
  /\ call.pc = "setTimeout"
  /\ call' = [call EXCEPT !.pc = "getVideosOperation",
                          !.requests = Append(@, "getVideosOperation")]
  /\ UNCHANGED <<app, apiKey>>

\* fetch answered: the object URL of the blob
fetchResponded ==
  /\ call.fn = "generateDesignVideo"
  /\ call.pc = "fetch"
  /\ call' = [fn |-> call.fn, pc |-> "returned", requests |-> call.requests,
              result |-> "blob:video"]
  /\ UNCHANGED <<app, apiKey>>

VideoErrors == {"Requested entity was not found.", "Network unreachable"}

\* a request of the call threw: the catch of generateDesignVideo
videoRequestRejected(err) ==
  /\ call.fn = "generateDesignVideo"
  /\ call.pc \in {"generateVideos", "getVideosOperation", "fetch"}
  /\ call' = [fn |-> call.fn, pc |-> "thrown", requests |-> call.requests,
              message |-> IF Includes(err, "not found") THEN "API_KEY_ERROR"
                          ELSE err]
  /\ UNCHANGED <<app, apiKey>>

\* ----------------------------------- the catch of the two generate handlers
\* (C28) one message for every failure
EngineError_hiccup(err, onLine) ==
  [message |-> "Oops! We encountered a small hiccup.",
   openSelectKey |-> err = "API_KEY_ERROR"]

\* handleEngineError with navigator.onLine either way: the toast it raises
\* and whether it calls aistudio.openSelectKey()
EngineError(err, onLine) ==
  [message |->
     IF err # "API_KEY_ERROR" /\ ~Includes(err, "429") /\ ~onLine
       THEN "Check your internet connection and try again."
       ELSE EngineErrorMessage(err),
   openSelectKey |-> err = "API_KEY_ERROR"]

\* catch (err) { handleEngineError(err); } on what the call of the service
\* threw; the handler calls the service once and not again
handleEngineErrorThrown(onLine) ==
  /\ call.pc = "thrown"
  /\ LET handled == EngineError(call.message, onLine) IN
       /\ toast' = handled.message
       /\ call' = [fn |-> call.fn, pc |-> "caught", requests |-> call.requests,
                   message |-> call.message, onLine |-> onLine,
                   openSelectKey |-> handled.openSelectKey]
  /\ UNCHANGED <<versions, videoVersions, currentVersionId, currentVideoId,
                 designState, videoState, isGenerating, error, arrs, imgReqs,
                 vidReqs, nextVersionId, nextVideoId, nextItemId, apiKey>>

\* SpecUrl: getBase64FromUrl applied to a string, then to what it returned
InitUrl ==
  /\ versions = <<>>
  /\ videoVersions = <<>>
  /\ currentVersionId = null
  /\ currentVideoId = null
  /\ designState = INITIAL_STATE
  /\ videoState = INITIAL_VIDEO_STATE
  /\ isGenerating = FALSE
  /\ toast = ""
  /\ error = null
  /\ arrs = << <<>>, <<>> >>
  /\ imgReqs = <<>>
  /\ vidReqs = <<>>
  /\ nextVersionId = 1
  /\ nextVideoId = 1
  /\ nextItemId = 1
  /\ apiKey = "key"
  /\ \E url \in Urls :
       call = [fn |-> "getBase64FromUrl", url |-> url, returned |-> <<>>]

getBase64FromUrlApplied ==
  /\ call.fn = "getBase64FromUrl"
  /\ Len(call.returned) < MaxApplications
  /\ LET arg == IF call.returned = <<>> THEN call.url ELSE Last(call.returned)
     IN call' = [call EXCEPT !.returned = Append(@, getBase64FromUrl(arg))]
  /\ UNCHANGED <<app, apiKey>>

\* ------------------------------------------------------- specifications
\* Spec: a session in the design studio of src/unnamed/part_002: upload, the
\* edits of the design form, the image-generation cycle, the history
\* (select, delete) and reset.
Next ==
  \/ handleReset
  \/ \E photo \in Photos : handleFileUpload(photo)
  \/ \E id \in VersionIds : handleSelectVersion(id)
  \/ \E id \in VersionIds : handleDeleteVersion(id)
  \/ \E v \in InstructionTexts : setInstructions(v)
  \/ \E id \in PresetIds : togglePreset(id)
  \/ \E image \in Photos : addCustomItem(image)
  \/ handleGenerate
  \/ \E i \in 1..MaxImgReqs : handleGenerateResolved(i)
  \/ \E i \in 1..MaxImgReqs : handleGenerateRejected(i)

Spec == Init /\ [][Next]_vars

\* SpecFair: Spec where the promise of an outstanding generateDesignIteration
\* is settled in the end: it resolves or it rejects.
SpecFair ==
  /\ Init
  /\ [][Next]_vars
  /\ WF_vars(\E i \in 1..MaxImgReqs :
               handleGenerateResolved(i) \/ handleGenerateRejected(i))

\* SpecCinema: the two generation cycles side by side (the design form is
\* left as it is): upload, the image cycle, the video cycle with its
\* awaits, the video form, the deletions and reset.
NextCinema ==
  \/ handleReset
  \/ \E photo \in Photos : handleFileUpload(photo)
  \/ \E id \in VersionIds : handleDeleteVersion(id)
  \/ \E id \in VideoIds : handleDeleteVideo(id)
  \/ \E id \in VideoIds : selectVideo(id)
  \/ \E res \in Resolutions : setVideoResolution(res)
  \/ handleGenerate
  \/ \E i \in 1..MaxImgReqs : handleGenerateResolved(i)
  \/ \E i \in 1..MaxImgReqs : handleGenerateRejected(i)
  \/ handleGenerateVideo
  \/ \E i \in 1..MaxVidReqs, hasKey \in BOOLEAN : ensureApiKeyAnswered(i, hasKey)
  \/ \E i \in 1..MaxVidReqs : ensureApiKeySelected(i)
  \/ \E i \in 1..MaxVidReqs : handleGenerateVideoResolved(i)
  \/ \E i \in 1..MaxVidReqs : handleGenerateVideoRejected(i)

SpecCinema == Init /\ [][NextCinema]_vars

\* SpecV1: a session of the App of src/App.tsx.
NextV1 ==
  \/ \E photo \in Photos : handleFileUploadV1(photo)
  \/ \E v \in InstructionTexts : setInstructionsV1(v)
  \/ \E image \in Photos : handleCustomItemUpload(image)
  \/ \E id \in 1..MaxItems : removeCustomItem(id)
  \/ \E id \in 1..MaxItems, text \in InstructionTexts :
       updateCustomItemInstruction(id, text)
  \/ handleGenerateV1
  \/ \E i \in 1..MaxImgReqs : handleGenerateResolvedV1(i)
  \/ \E i \in 1..MaxImgReqs : handleGenerateRejectedV1(i)
  \/ \E id \in VersionIds : selectVersionV1(id)
  \/ handleUndo

SpecV1 == InitV1 /\ [][NextV1]_vars

\* SpecUrl: every short string through getBase64FromUrl, twice.
NextUrl == getBase64FromUrlApplied

SpecUrl == InitUrl /\ [][NextUrl]_vars

\* SpecService: calls of the service, with and without the credential, over
\* the images, configurations and replies above.
InitService ==
  /\ versions = <<>>
  /\ videoVersions = <<>>
  /\ currentVersionId = null
  /\ currentVideoId = null
  /\ designState = INITIAL_STATE
  /\ videoState = INITIAL_VIDEO_STATE
  /\ isGenerating = FALSE
  /\ toast = ""
  /\ error = null
  /\ arrs = << <<>>, <<>> >>
  /\ imgReqs = <<>>
  /\ vidReqs = <<>>
  /\ nextVersionId = 1
  /\ nextVideoId = 1
  /\ nextItemId = 1
  /\ apiKey \in {"", "key"}
  /\ call = NoCall

NextService ==
  \/ \E currentImage \in ImageRefs, config \in ServiceConfigs :
       generateDesignIteration(currentImage, config)
  \/ \E reply \in Replies : generateContentReplied(reply)
  \/ \E err \in TransportErrors : generateContentRejected(err)
  \/ \E imageBase64 \in ImageRefs, res \in Resolutions :
       generateDesignVideo(imageBase64,
                           [INITIAL_VIDEO_STATE EXCEPT !.resolution = res])
  \/ \E operation \in Operations : operationReceived(operation)
  \/ setTimeoutFired
  \/ fetchResponded
  \/ \E err \in VideoErrors : videoRequestRejected(err)
  \/ \E onLine \in BOOLEAN : handleEngineErrorThrown(onLine)

SpecService == InitService /\ [][NextService]_vars

\* ================================================================= claims
\* C1 (Branching).  A generation started while version P is current keeps
\* P's id at the click; when it succeeds exactly one node is appended, its
\* parentId is that id, every node that was there stays in place, and the
\* new node is current.
C1_Branching ==
  [][ /\ handleGenerate => Last(imgReqs').parent = currentVersionId
      /\ \A i \in DOMAIN imgReqs : handleGenerateResolved(i) =>
           /\ Len(versions') = Len(versions) + 1
           /\ SubSeq(versions', 1, Len(versions)) = versions
           /\ Last(versions').parentId = imgReqs[i].parent
           /\ ~Has(versions, Last(versions').id)
           /\ currentVersionId' = Last(versions').id ]_vars

\* upload R, generate C1, select R, generate C2: three nodes, C1 and C2 both
\* children of R, C2 current
C1_Witness ==
  /\ Len(versions) = 3
  /\ versions[1].parentId = null
  /\ versions[2].parentId = versions[1].id
  /\ versions[3].parentId = versions[1].id
  /\ currentVersionId = versions[3].id
  /\ toast = "Design iteration complete!"

\* C2 (No dangling parents).  In every reachable state every node with a
\* non-null parentId has the id of a node of the graph as its parentId.
C2_NoDanglingParents ==
  \A v \in Range(versions) : v.parentId # null => Has(versions, v.parentId)

\* C3 (Undo).  Undo moves the current pointer to the node whose id is the
\* current node's parentId; at the root, or with nothing selected, it
\* changes nothing.
C3_UndoToParent ==
  [][ handleUndo =>
        IF HasCurrentVersion /\ currentVersion.parentId # null
          THEN currentVersionId' = currentVersion.parentId
          ELSE UNCHANGED <<currentVersionId, designState>> ]_vars

\* C4 (Deleting the current version).  If versions remain, the pointer
\* becomes the remaining node with the latest timestamp, the later inserted
\* one among equal timestamps, a node that was there before, and the
\* DesignState becomes its config; if none remains the graph is empty and
\* the pointer is null.
C4_DeleteCurrent ==
  [][ \A id \in VersionIds :
        handleDeleteVersion(id) /\ id = currentVersionId =>
          LET rest == {k \in DOMAIN versions : versions[k].id # id} IN
            IF rest = {}
              THEN versions' = <<>> /\ currentVersionId' = null
              ELSE \E k \in rest :
                     /\ \A j \in rest :
                          \/ versions[j].timestamp < versions[k].timestamp
                          \/ versions[j].timestamp = versions[k].timestamp /\ j <= k
                     /\ currentVersionId' = versions[k].id
                     /\ Has(versions', versions[k].id)
                     /\ designState' = versions[k].config ]_vars

\* a deletion left versions 1 and 2 of three, the later of them current and
\* its config live
C4_Witness ==
  /\ toast = "Design removed."
  /\ Len(versions) = 2
  /\ nextVersionId = 4
  /\ currentVersionId = Last(versions).id
  /\ designState = Last(versions).config
  /\ designState.instructions # ""

\* C5 (Deleting a version that is not current).  Exactly that node goes; the
\* other nodes and their order, the current pointer, the DesignState, the
\* video list and the current video pointer stay as they were.
C5_DeleteOther ==
  [][ \A id \in VersionIds :
        handleDeleteVersion(id) /\ id # currentVersionId /\ Has(versions, id) =>
          /\ Len(versions') = Len(versions) - 1
          /\ ~Has(versions', id)
          /\ \A k \in DOMAIN versions' :
               versions'[k] = versions[IF k < FindIndex(versions, id) THEN k ELSE k + 1]
          /\ UNCHANGED <<currentVersionId, designState, arrs, videoVersions,
                         currentVideoId>> ]_vars

\* the root was deleted while its first child was current: both children
\* are still there, in order, with the root's id as parentId
C5_Witness ==
  /\ toast = "Design removed."
  /\ Len(versions) = 2
  /\ versions[1].id = 2 /\ versions[2].id = 3
  /\ versions[1].parentId = 1 /\ versions[2].parentId = 1
  /\ currentVersionId = 2

\* C6 (Select).  Selecting an id of the graph makes it current and makes the
\* node's config the DesignState; selecting an id that is not in the graph
\* leaves the pointer and the DesignState as they were.
C6_Select ==
  [][ \A id \in VersionIds : selectVersionV1(id) =>
        IF Has(versions, id)
          THEN /\ currentVersionId' = id
               /\ designState' = Find(versions, id).config
               /\ arrs' = arrs
          ELSE UNCHANGED <<currentVersionId, designState>> ]_vars

\* C7 (History immutability).  A node that stays in the graph keeps its id,
\* parentId, imageUrl, promptUsed and config, the contents of
\* config.customItems and config.selectedPresets included, at every step.
C7_HistoryImmutable ==
  [][ \A k \in DOMAIN versions, j \in DOMAIN versions' :
        versions[k].id = versions'[j].id =>
          /\ versions'[j].parentId = versions[k].parentId
          /\ versions'[j].imageUrl = versions[k].imageUrl
          /\ versions'[j].promptUsed = versions[k].promptUsed
          /\ ConfigIn(arrs', versions'[j].config)
               = ConfigIn(arrs, versions[k].config) ]_vars

\* a node generated after a preset toggle shares the array of presets with
\* the DesignState, which was edited after the generation; the root still
\* has no preset
C7_Witness ==
  /\ Len(versions) >= 2
  /\ \E v \in Range(versions) :
       /\ v.config.selectedPresets = designState.selectedPresets
       /\ arrs[v.config.selectedPresets] # <<>>
       /\ v.config.instructions # designState.instructions
  /\ arrs[versions[1].config.selectedPresets] = <<>>

\* C8 (One image request).  At most one image-generation request is
\* outstanding at any time.
C8_OneImageRequest == Len(imgReqs) <= 1

\* C9 (Independent streams).  While an image-generation request is
\* outstanding the video button is enabled, and while a video-generation
\* request is outstanding the image button is enabled.
C9_IndependentStreams ==
  /\ (StudioOpen /\ imgReqs # <<>> /\ vidReqs = <<>>) => VideoButtonEnabled
  /\ (StudioOpen /\ vidReqs # <<>> /\ imgReqs = <<>>) => GenerateButtonEnabled

\* C10 (Failed cycle).  A rejected image or video generation leaves the
\* graph, the video list, both pointers, the DesignState (and its arrays)
\* and the VideoState as they were, and the busy flag is false after it.
C10_FailureFrame ==
  [][ (\/ \E i \in DOMAIN imgReqs : handleGenerateRejected(i)
       \/ \E i \in DOMAIN vidReqs : handleGenerateVideoRejected(i)) =>
        /\ UNCHANGED <<versions, videoVersions, currentVersionId,
                       currentVideoId, designState, arrs, videoState>>
        /\ isGenerating' = FALSE ]_vars

\* an error toast is up, nothing is in flight, the flag is down and the
\* session has a video and two versions
C10_Witness ==
  /\ toast \in {EngineErrorMessage(err) : err \in Errors}
  /\ ~isGenerating
  /\ imgReqs = <<>> /\ vidReqs = <<>>
  /\ Len(versions) = 2
  /\ Len(videoVersions) = 1

\* C11 (InvalidParent).  A successful reply whose parent (the version the
\* generation was started from) is no longer in the graph appends no node
\* and does not move the current pointer.
C11_InvalidParent ==
  [][ \A i \in DOMAIN imgReqs :
        handleGenerateResolved(i) /\ ~Has(versions, imgReqs[i].parent) =>
          UNCHANGED <<versions, currentVersionId>> ]_vars

\* the image references the program hands over: a raw encoding (no "data:"
\* at its start), or a data URI "data:" header "," payload whose payload is
\* a raw encoding without "," and "data:"
RawEncoding(x) == x \in Urls /\ ~StartsWith(x, "data:")
DataUriOfRaw(x) ==
  /\ x \in Urls /\ StartsWith(x, "data:")
  /\ \E i \in DOMAIN x :
       /\ x[i] = ","
       /\ \A j \in 1..(i - 1) : x[j] # ","
       /\ \A j \in (i + 1)..Len(x) : x[j] \notin {",", "data:"}

\* C15 (Normalisation is idempotent), as stated: for every string x,
\* getBase64FromUrl(getBase64FromUrl(x)) = getBase64FromUrl(x).
C15_IdempotentEverywhere ==
  (call.fn = "getBase64FromUrl" /\ Len(call.returned) = 2) =>
     call.returned[2] = call.returned[1]

\* C15, amended: for a raw encoding x the function returns x; for a data
\* URI whose payload is a raw encoding it returns exactly the payload; in
\* both cases applying it again returns the same value.
C15_IdempotentOnReferences ==
  (call.fn = "getBase64FromUrl" /\ Len(call.returned) >= 1) =>
     LET x == call.url IN
       /\ RawEncoding(x) => call.returned[1] = x
       /\ DataUriOfRaw(x) =>
            \E i \in DOMAIN x :
              /\ x[i] = "," /\ \A j \in 1..(i - 1) : x[j] # ","
              /\ call.returned[1] = SubSeq(x, i + 1, Len(x))
       /\ (RawEncoding(x) \/ DataUriOfRaw(x)) /\ Len(call.returned) = 2 =>
            call.returned[2] = call.returned[1]

\* a data URI went through twice and both results are its payload
C15_Witness ==
  /\ call.fn = "getBase64FromUrl"
  /\ call.url = <<"data:", "image/png;base64", ",", "AAAA">>
  /\ call.returned = << <<"AAAA">>, <<"AAAA">> >>

\* C12 (image generation without the credential).  A call of
\* generateDesignIteration made while the credential is absent ends thrown
\* with the configuration message, no request has been sent for it, and
\* the version graph, the pointer and the form are as they were.
C12_MissingKeyImage ==
  [][call.pc = "idle" /\ call'.fn = "generateDesignIteration" /\ apiKey = ""
       => /\ call'.pc = "thrown"
          /\ call'.message = "Missing API key configuration."
          /\ call'.requests = <<>>
          /\ UNCHANGED <<graph, designState, arrs>>]_vars

C12_Witness ==
  /\ apiKey = ""
  /\ call.fn = "generateDesignIteration"
  /\ call.pc = "thrown"
  /\ call.requests = <<>>

\* C14 (compiled request).  The parts sent with generateContent are, in this
\* order: the system text, the request text carrying the instructions, the
\* base image; then the label text and the inspiration image exactly when an
\* inspiration image is set; then for each custom item, in the order of the
\* list, its placement text (the default "Natural placement." for an empty
\* instruction) and its image.  That is 3 + 2 (inspiration) + 2 per item
\* parts, never none.
C14_CompiledParts ==
  call.fn = "generateDesignIteration" /\ call.pc = "generateContent" =>
    LET config == call.config
        parts == call.parts
        inspired == config.inspirationImage # <<>>
        base == IF inspired THEN 5 ELSE 3
    IN /\ Len(parts) = base + 2 * Len(config.customItems)
       /\ parts # <<>>
       /\ parts[1] = [text |-> <<SYSTEM_PROMPT>>]
       /\ parts[2] = [text |-> <<"REDESIGN REQUEST:", config.instructions>>]
       /\ parts[3] = [inlineData |->
                        [mimeType |-> "image/png",
                         data |-> getBase64FromUrl(call.currentImage)]]
       /\ inspired =>
            /\ parts[4] = [text |-> <<"STYLE INSPIRATION REFERENCE:">>]
            /\ parts[5] = [inlineData |->
                             [mimeType |-> "image/png",
                              data |-> getBase64FromUrl(config.inspirationImage)]]
       /\ \A k \in DOMAIN config.customItems :
            LET item == config.customItems[k] IN
              /\ parts[base + 2 * k - 1] =
                   [text |-> <<"PLACE THIS FURNITURE: ",
                               IF item.instruction = "" THEN "Natural placement."
                               ELSE item.instruction>>]
              /\ parts[base + 2 * k] =
                   [inlineData |-> [mimeType |-> "image/png",
                                    data |-> getBase64FromUrl(item.image)]]

C14_Witness ==
  /\ call.fn = "generateDesignIteration" /\ call.pc = "generateContent"
  /\ call.config.inspirationImage # <<>>
  /\ Len(call.config.customItems) = 2
  /\ call.config.customItems[1].instruction = ""
  /\ call.config.customItems[2].instruction = "by the window"
  /\ Len(call.parts) = 9

\* C16 (several image parts).  When the reply holds image parts, the image
\* of the result is the one of the first image part of the reply.
C16_FirstImageKept ==
  call.fn = "generateDesignIteration" /\ call.pc = "returned" =>
    LET images == SelectSeq(call.reply.parts, IsImagePart) IN
      call.result.imageUrl =
        <<"data:", "image/png;base64", ",">> \o images[1].inlineData.data

\* C17 (metadata never fails a reply with an image).  A reply with content
\* and at least one image part ends the call returned, whatever its text
\* is, and the result has an image, a summary, a reasoning, suggestions and
\* a score, none of them undefined or null.
C17_CompleteResult ==
  /\ call.fn = "generateDesignIteration"
  /\ call.pc \in {"returned", "thrown"}
  /\ "reply" \in DOMAIN call
  /\ call.reply.content
  /\ \E i \in DOMAIN call.reply.parts : IsImagePart(call.reply.parts[i])
  => /\ call.pc = "returned"
     /\ DOMAIN call.result =
          {"imageUrl", "vibeSummary", "reasoning", "suggestions",
           "sustainabilityScore"}
     /\ call.result.imageUrl # <<>>
     /\ \A f \in {"vibeSummary", "reasoning", "suggestions",
                   "sustainabilityScore"} :
          call.result[f].t \notin {"undefined", "null"}

\* an image, and a brace block that JSON.parse rejects
C17_Witness ==
  /\ call.fn = "generateDesignIteration" /\ call.pc = "returned"
  /\ LET text == ScannedText(call.reply.parts, <<>>) IN
       /\ JsonMatch(text) # <<>>
       /\ ~Parses(JsonMatch(text))
  /\ call.result.vibeSummary = Str("New atmosphere generated.")
  /\ call.result.sustainabilityScore = Num("7")

\* C18 (field-level fallback by shape).  When the brace block of the text
\* decodes, each field of the result is the decoded value if that value is
\* there and of the right shape (a string for vibeSummary and reasoning, a
\* non-empty list for suggestions, a number for sustainabilityScore), and
\* its default otherwise; for the empty string either of the two is
\* accepted here.
C18_RightShapeOrDefault ==
  call.fn = "generateDesignIteration" /\ call.pc = "returned" =>
    LET block == JsonMatch(ScannedText(call.reply.parts, <<>>))
        Decoded(key) ==
          LET at == {i \in DOMAIN block :
                       block[i].ch = "member" /\ block[i].key = key}
          IN IF at = {} THEN [t |-> "undefined", v |-> "undefined"]
             ELSE block[CHOOSE i \in at : \A j \in at : j <= i].value
        Default(key) ==
          CASE key = "vibeSummary" -> Str("New atmosphere generated.")
            [] key = "reasoning" ->
                 Str("Balanced the new style with existing architectural constraints.")
            [] key = "suggestions" -> DefaultMetadata.suggestions
            [] key = "sustainabilityScore" -> Num("7")
        RightShape(key, x) ==
          CASE key \in {"vibeSummary", "reasoning"} -> x.t = "string"
            [] key = "suggestions" -> x.t = "array" /\ x.v # "[]"
            [] key = "sustainabilityScore" -> x.t = "number"
    IN block # <<>> /\ Parses(block) =>
         \A key \in {"vibeSummary", "reasoning", "suggestions",
                     "sustainabilityScore"} :
           IF RightShape(key, Decoded(key))
             THEN \/ call.result[key] = Decoded(key)
                  \/ Decoded(key) = Str("") /\ call.result[key] = Default(key)
             ELSE call.result[key] = Default(key)

\* C19 (Scenario B).  For a reply with one image part whose text holds a
\* block that decodes, with vibeSummary "Cozy loft", an empty suggestions
\* array and no sustainabilityScore, the result keeps "Cozy loft" and has
\* the four default suggestions and the default score 7.  The suggestions
\* of every returned result are a non-empty list.
C19_ScenarioB ==
  call.fn = "generateDesignIteration" /\ call.pc = "returned" =>
    LET text == ScannedText(call.reply.parts, <<>>)
        block == JsonMatch(text)
        Has1(key, value) ==
          \E i \in DOMAIN block : block[i] = Member(key, value)
        Lacks(key) ==
          \A i \in DOMAIN block : block[i].ch = "member" => block[i].key # key
    IN /\ call.result.suggestions.t = "array"
       /\ call.result.suggestions.v # "[]"
       /\ ( /\ Len(SelectSeq(call.reply.parts, IsImagePart)) = 1
            /\ block # <<>> /\ Parses(block)
            /\ Has1("vibeSummary", Str("Cozy loft"))
            /\ Has1("suggestions", Arr("[]"))
            /\ Lacks("sustainabilityScore")
            => /\ call.result.vibeSummary = Str("Cozy loft")
               /\ call.result.suggestions =
                    Arr("[Add indoor plants, Include accent lighting, Try a different wall color, Add window treatments]")
               /\ call.result.sustainabilityScore = Num("7") )

\* the reply of Scenario B itself: text around the block, then the image
C19_Witness ==
  /\ call.fn = "generateDesignIteration" /\ call.pc = "returned"
  /\ Len(call.reply.parts) = 2
  /\ call.reply.parts[1] =
       [text |-> <<Ch("."), Ch("{"), Member("vibeSummary", Str("Cozy loft")),
                   Member("suggestions", Arr("[]")), Ch("}"), Ch(".")>>]
  /\ IsImagePart(call.reply.parts[2])
  /\ call.result.vibeSummary = Str("Cozy loft")
  /\ call.result.sustainabilityScore = Num("7")

\* C20 (no image part).  A reply without an image part always ends the
\* call thrown, never returned.  The message is the "declined" one exactly
\* when the texts of the reply, concatenated, contain "safety", "cannot" or
\* "refuse" in any letter case, and a generic one otherwise ("unable to
\* generate", or "couldn't process" for a reply without content); the
\* declined message differs from the generic ones and reaches the caller
\* as thrown.
C20_NoImageFails ==
  /\ call.fn = "generateDesignIteration"
  /\ call.pc \in {"returned", "thrown"}
  /\ "reply" \in DOMAIN call
  /\ \A i \in DOMAIN call.reply.parts : ~IsImagePart(call.reply.parts[i])
  => LET text == ToLowerCase(ScannedText(call.reply.parts, <<>>))
         declined ==
           \/ TextIncludes(text, <<"s", "a", "f", "e", "t", "y">>)
           \/ TextIncludes(text, <<"c", "a", "n", "n", "o", "t">>)
           \/ TextIncludes(text, <<"r", "e", "f", "u", "s", "e">>)
     IN /\ call.pc = "thrown"
        /\ declined <=> call.message = DeclinedMessage
        /\ ~declined =>
             call.message = IF call.reply.content THEN UnableMessage
                            ELSE NoContentMessage
        /\ DeclinedMessage \notin {UnableMessage, NoContentMessage}

\* "I CAN" and "not" in two text parts, no image: declined
C20_Witness ==
  /\ call.fn = "generateDesignIteration" /\ call.pc = "thrown"
  /\ "reply" \in DOMAIN call
  /\ Len(call.reply.parts) = 2
  /\ call.reply.parts[1] = [text |-> Chars(<<"I", " ", "C", "A", "N">>)]
  /\ call.reply.parts[2] = [text |-> Chars(<<"n", "o", "t">>)]
  /\ call.message = DeclinedMessage

\* C13 (video generation without the credential).  A call of
\* generateDesignVideo made while the credential is absent is thrown and has
\* sent no request: no generateVideos, no getVideosOperation, no fetch.
C13_MissingKeyVideo ==
  call.fn = "generateDesignVideo" /\ apiKey = ""
    => call.pc = "thrown" /\ call.requests = <<>>

\* C21 (strict growth, no resurrection).  A successful generation leaves
\* every node of the graph in place and adds exactly one node, whose id was
\* never drawn before in the session (ids are drawn by crypto.randomUUID,
\* here the counter nextVersionId).  No step of the program brings back an
\* id that was drawn earlier and is no longer in the graph.
C21_StrictGrowth ==
  [][ /\ (\E i \in DOMAIN imgReqs : handleGenerateResolved(i)) =>
           /\ Len(versions') = Len(versions) + 1
           /\ SubSeq(versions', 1, Len(versions)) = versions
           /\ Last(versions').id \notin 1..(nextVersionId - 1)
           /\ \A v \in Range(versions) : v.id # Last(versions').id
      /\ \A id \in 1..(nextVersionId - 1) :
           ~Has(versions, id) => ~Has(versions', id) ]_vars

\* the root was deleted and a generation succeeded after that
C21_Witness ==
  /\ toast = "Design iteration complete!"
  /\ nextVersionId = 4
  /\ Len(versions) = 2
  /\ ~Has(versions, 1)
  /\ versions[2].id = 3

\* C22 (root invariant).  In every reachable state a node of the graph has
\* parentId = null exactly when it was made by a photo upload (its image is
\* the photo); such a node has the sentinel "Original Photo" as promptUsed
\* and the initial DesignState, with its two empty arrays, as config; a
\* node made by a generation has the id of a version as parentId.
C22_RootInvariant ==
  \A v \in Range(versions) :
    /\ v.parentId = null <=> v.imageUrl \in Photos
    /\ v.imageUrl \in Photos =>
         /\ v.promptUsed = [text |-> "Original Photo", n |-> 0]
         /\ v.config = INITIAL_STATE
         /\ arrs[v.config.customItems] = <<>>
         /\ arrs[v.config.selectedPresets] = <<>>
    /\ v.imageUrl \notin Photos => v.parentId \in VersionIds

\* a root and a node generated from it after the form was edited
C22_Witness ==
  /\ Len(versions) = 2
  /\ versions[1].parentId = null /\ versions[1].imageUrl \in Photos
  /\ versions[2].parentId = versions[1].id
  /\ versions[2].imageUrl = "render"
  /\ versions[2].config.instructions = "Add a desk"
  /\ arrs[versions[2].config.selectedPresets] # <<>>

\* C23 (busy invariant).  In every reachable state, while an image request
\* or a video cycle (its key check and its call of the service included)
\* is outstanding, the busy flag isGenerating is true.
C23_BusyWhileOutstanding ==
  imgReqs # <<>> \/ vidReqs # <<>> => isGenerating

\* C24 (back to Idle).  Given that the call of the model returns or throws,
\* every image generation that was started leads to a state where nothing
\* is outstanding and the busy flag is false, after a success as after a
\* failure, and there the Generate button of an open studio is enabled.
C24_ReturnsToIdle ==
  /\ (imgReqs # <<>>) ~> (imgReqs = <<>> /\ ~isGenerating)
  /\ [](imgReqs = <<>> /\ ~isGenerating /\ StudioOpen => ENABLED handleGenerate)

\* a generation failed, and a later one has been triggered
C24_Witness ==
  /\ toast = "Oops! We encountered a small hiccup."
  /\ isGenerating
  /\ Len(imgReqs) = 1
  /\ Len(versions) = 2

\* C25 (video polling).  generateDesignVideo asks for the operation again
\* after each wait until the operation is done, and while it does (for
\* ever, if the operation is never done) the busy flag is set: a video
\* cycle that is at its call of generateDesignVideo has isGenerating true.
C25_BusyWhilePolling ==
  \A i \in DOMAIN vidReqs :
    vidReqs[i].pc = "generateDesignVideo" => isGenerating

\* C26 (first well-formed object).  When the text of the reply is a
\* well-formed object followed by further text that holds another closing
\* brace, the metadata of the result is read from that first object, as if
\* the further text were not there.
C26_FirstObjectDecoded ==
  call.fn = "generateDesignIteration" /\ call.pc = "returned" =>
    LET IsText(part) == ~IsImagePart(part)
        texts == SelectSeq(call.reply.parts, IsText)
    IN /\ Len(texts) = 2
       /\ texts[1].text \in MetadataTexts
       /\ \E i \in DOMAIN texts[2].text : texts[2].text[i].ch = "}"
       => \A key \in {"vibeSummary", "reasoning", "suggestions",
                       "sustainabilityScore"} :
            call.result[key] = ParsedMetadata(texts[1].text)[key]

\* C27 (snapshot at the click).  The config of the node a generation
\* appends is the DesignState of the click, the one sent to the model:
\* while the request is outstanding no step (an edit of the form, the
\* selection of another version) changes that DesignState or the arrays
\* it points at, and the completion stores it in the node and leaves the
\* live DesignState as it is.
C27_SnapshotAtTrigger ==
  [][ /\ \A i \in DOMAIN imgReqs :
           ConfigIn(arrs', imgReqs[i].config) = ConfigIn(arrs, imgReqs[i].config)
      /\ \A i \in DOMAIN imgReqs :
           handleGenerateResolved(i) =>
             /\ Last(versions').config = imgReqs[i].config
             /\ UNCHANGED <<designState, arrs>> ]_vars

\* the new node is current and the form no longer shows its config
C27_Witness ==
  /\ toast = "Design iteration complete!"
  /\ imgReqs = <<>>
  /\ currentVersionId = Last(versions).id
  /\ Last(versions).config.instructions = ""
  /\ designState.instructions = "Add a desk"
  /\ arrs[Last(versions).config.selectedPresets] = <<>>
  /\ arrs[designState.selectedPresets] # <<>>

\* C28 (distinguishing messages).  When the call of the service has thrown,
\* the toast of the handler tells the kind: API_KEY_ERROR gives the key
\* message and opens the key selection (nothing else opens it), a message
\* with "429" gives the breather message, a message with "Network", or any
\* other message while the browser is offline, gives the connection
\* message, and every other message is shown as it is.  The three fixed
\* messages differ, and no request is sent after the failure.
C28_DistinguishingMessages ==
  [][ /\ call.pc = "thrown" /\ call'.pc = "caught" =>
           LET m == call.message
               key == "API Key issue. Please re-select your key."
               breather == "The AI designer is taking a short breather."
               connection == "Check your internet connection and try again."
           IN /\ call'.openSelectKey <=> m = "API_KEY_ERROR"
              /\ toast' =
                   CASE m = "API_KEY_ERROR" -> key
                     [] m = "429 quota exceeded" -> breather
                     [] m = "Network unreachable" -> connection
                     [] OTHER -> IF call'.onLine THEN m ELSE connection
              /\ Cardinality({key, breather, connection}) = 3
              /\ call'.requests = call.requests
      /\ call.pc = "caught" => call'.requests = call.requests ]_vars

\* the provider did not find the video model for the key: the key message
\* and the key selection
C28_Witness ==
  /\ call.fn = "generateDesignVideo"
  /\ call.pc = "caught"
  /\ call.message = "API_KEY_ERROR"
  /\ call.openSelectKey
  /\ toast = "API Key issue. Please re-select your key."

C30_ResetIsolation ==
  [][ toast = "Started new project." =>
        /\ \A v \in Range(versions') : v.parentId = null
        /\ videoVersions' = <<>>
        /\ currentVersionId' # null =>
             /\ Has(versions', currentVersionId')
             /\ Find(versions', currentVersionId').parentId = null
        /\ currentVideoId' = null ]_vars

====
